---- MODULE Spec2Model ----
(***************************************************************************)
(* Model of the Xiaohongshu QR login session manager                       *)
(* (src/lib/routes/xiaohongshu/board.ts, second half: the /login route)    *)
(* and of the shared runtime cookie (src/lib/routes/xiaohongshu/cookie.ts),*)
(* with the user route handler (src/unnamed/part_000) and getUserCollect   *)
(* (src/lib/routes/xiaohongshu/util.ts) as the readers of the cookie.      *)
(*                                                                         *)
(* JavaScript runs one callback at a time; a callback runs until its next  *)
(* `await`.  Each action below is one such run-to-suspension segment.      *)
(* Strings are sequences of chunks (<<"web_session", "=", "abc">>), an     *)
(* optional value is <<>> (undefined) or <<v>>.                            *)
(***************************************************************************)
EXTENDS Integers, Sequences, FiniteSets, TLC

\* ---------------------------------------------------------------- bounds
MaxSessions == 1
MaxTicks == 2
MaxTime == 1

\* ------------------------------------------------------ program constants
SESSION_TTL == 300000

Ids == 1..MaxSessions
\* Values of Date.now().
Times == 1..MaxTime

Undefined == << >>
Def(v) == <<v>>
IsDef(o) == o # Undefined
Val(o) == o[1]

\* Cookie jars page.cookies() can resolve with: sequences of [name, value].
WebSession == [name |-> <<"web_session">>, value |-> <<"abc">>]
OtherCookie == [name |-> <<"a1">>, value |-> <<"1">>]
Jars == { << >>, <<OtherCookie>>, <<OtherCookie, WebSession>> }

\* Values a rejected browser operation can throw.
Thrown == { [isError |-> TRUE, message |-> "Target closed"],
            [isError |-> FALSE, value |-> "timeout"] }

VARIABLES
    loginSessions,   \* keys of the Map loginSessions
    sessions,        \* the LoginSession objects, by id (alive while referenced)
    timers,          \* armed timers: <<kind, id>>
    createPc,        \* position of createLoginSession for each id
    cookieReads,     \* per id: monitor ticks awaiting page.cookies()
    destroys,        \* per id: cleanup calls awaiting session.destory()
    destroyCalls,    \* per id: how many times the page's destory() was invoked
    removalArms,     \* per id: how many times a removal timer was armed
    runtimeCookie,   \* cookie.ts: runtimeCookie
    runtimeUpdatedAt,\* cookie.ts: runtimeUpdatedAt
    now,             \* Date.now()
    last,            \* the last HTTP response (or thrown error) of handler
    req,             \* the one request followed through its awaits, if any
    config           \* config.xiaohongshu, fixed when the process starts

vars == <<loginSessions, sessions, timers, createPc, cookieReads, destroys,
          destroyCalls, removalArms, runtimeCookie, runtimeUpdatedAt, now, last, req,
          config>>

NoResponse == [op |-> "none"]
\* No request is being followed.
Idle == [pc |-> "idle"]
\* XIAOHONGSHU_COOKIE is not set.
NoConfig == [cookie |-> Undefined]

\* -------------------------------------------------------------- strings
\* error instanceof Error ? error.message : String(error)
ErrorText(e) == IF e.isError THEN e.message ELSE e.value

IsSpace(ch) == ch = " "

RECURSIVE TrimStart(_)
TrimStart(str) ==
    IF str = << >> THEN << >>
    ELSE IF IsSpace(Head(str)) THEN TrimStart(Tail(str)) ELSE str

RECURSIVE TrimEnd(_)
TrimEnd(str) ==
    IF str = << >> THEN << >>
    ELSE IF IsSpace(str[Len(str)]) THEN TrimEnd(SubSeq(str, 1, Len(str) - 1)) ELSE str

Trim(str) == TrimEnd(TrimStart(str))

\* cookies.map((cookie) => `${cookie.name}=${cookie.value}`).join('; ')
CookiePair(cookie) == cookie.name \o <<"=">> \o cookie.value

RECURSIVE JoinCookies(_)
JoinCookies(cookies) ==
    IF cookies = << >> THEN << >>
    ELSE IF Len(cookies) = 1 THEN CookiePair(cookies[1])
    ELSE CookiePair(cookies[1]) \o <<";", " ">> \o JoinCookies(Tail(cookies))

\* cookies.some((cookie) => cookie.name === 'web_session')
HasSession(cookies) == \E i \in 1..Len(cookies) : cookies[i].name = <<"web_session">>

\* --------------------------------------------------------------- cookie.ts
normalizeCookie(cookie) ==
    IF ~IsDef(cookie) \/ Val(cookie) = << >> THEN Undefined
    ELSE IF Trim(Val(cookie)) = << >> THEN Undefined ELSE Def(Trim(Val(cookie)))

setRuntimeCookie(cookie, t) ==
    /\ runtimeCookie' = normalizeCookie(cookie)
    /\ runtimeUpdatedAt' = IF IsDef(normalizeCookie(cookie)) THEN Def(t) ELSE Undefined

\* ------------------------------------------------------------------ Init
\* The module state of board.ts and cookie.ts after loading.
ModuleInit ==
    /\ loginSessions = {}
    /\ sessions = << >>
    /\ timers = {}
    /\ createPc = [i \in Ids |-> "idle"]
    /\ cookieReads = [i \in Ids |-> 0]
    /\ destroys = [i \in Ids |-> 0]
    /\ destroyCalls = [i \in Ids |-> 0]
    /\ removalArms = [i \in Ids |-> 0]
    /\ runtimeCookie = Undefined
    /\ runtimeUpdatedAt = Undefined
    /\ now = 1
    /\ last = NoResponse

Init ==
    /\ ModuleInit
    /\ req = Idle
    /\ config = NoConfig

\* ----------------------------------------------------------------- timers
Bump(f, s) == [f EXCEPT ![s] = @ + 1]
Drop(f, s) == [f EXCEPT ![s] = @ - 1]

IsTerminal(status) == status \in {"success", "expired", "failed"}

\* --------------------------------------------------- createLoginSession
\* handler without a sessionId: createLoginSession starts and suspends at
\* `await getPuppeteerPage(...)`.  randomUUID() never repeats: ids are taken
\* in order.
CreateStart(s) ==
    /\ createPc[s] = "idle"
    /\ \A i \in Ids : i < s => createPc[i] # "idle"
    /\ createPc' = [createPc EXCEPT ![s] = "open"]
    /\ last' = NoResponse
    /\ UNCHANGED <<loginSessions, sessions, timers, cookieReads, destroys,
                   destroyCalls, removalArms, runtimeCookie, runtimeUpdatedAt, now>>
    /\ UNCHANGED <<req, config>>

\* getPuppeteerPage settles; on success page.setViewport is called.
CreateOpened(s, ok) ==
    /\ createPc[s] = "open"
    /\ IF ok
       THEN /\ createPc' = [createPc EXCEPT ![s] = "viewport"]
            /\ last' = NoResponse
       ELSE /\ createPc' = [createPc EXCEPT ![s] = "thrown"]
            /\ last' = [op |-> "create", id |-> s, thrown |-> "getPuppeteerPage"]
    /\ UNCHANGED <<loginSessions, sessions, timers, cookieReads, destroys,
                   destroyCalls, removalArms, runtimeCookie, runtimeUpdatedAt, now>>
    /\ UNCHANGED <<req, config>>

\* page.setViewport settles; it is outside the try block, so a rejection
\* leaves createLoginSession without calling destory.
CreateViewport(s, ok) ==
    /\ createPc[s] = "viewport"
    /\ IF ok
       THEN /\ createPc' = [createPc EXCEPT ![s] = "wait"]
            /\ last' = NoResponse
       ELSE /\ createPc' = [createPc EXCEPT ![s] = "thrown"]
            /\ last' = [op |-> "create", id |-> s, thrown |-> "setViewport"]
    /\ UNCHANGED <<loginSessions, sessions, timers, cookieReads, destroys,
                   destroyCalls, removalArms, runtimeCookie, runtimeUpdatedAt, now>>
    /\ UNCHANGED <<req, config>>

\* The session object built and registered at lines 148-157.
NewSession(s, t) ==
    [id |-> s, status |-> "pending", createdAt |-> t, page |-> TRUE, destory |-> TRUE,
     cookie |-> Undefined, error |-> Undefined,
     monitor |-> TRUE, expireTimer |-> TRUE, removalTimer |-> FALSE]

\* A createLoginSession whose catch block rethrows without calling destory.
CreateWait_NoRelease(s, ok, t) ==
    /\ createPc[s] = "wait"
    /\ IF ok
       THEN /\ t >= now
            /\ now' = t
            /\ sessions' = [i \in DOMAIN sessions \cup {s} |->
                               IF i = s THEN NewSession(s, t) ELSE sessions[i]]
            /\ timers' = timers \cup {<<"monitor", s>>, <<"expire", s>>}
            /\ loginSessions' = loginSessions \cup {s}
            /\ createPc' = [createPc EXCEPT ![s] = "done"]
            /\ last' = [op |-> "create", id |-> s, code |-> 200]
            /\ UNCHANGED destroyCalls
       ELSE /\ t = now
            /\ createPc' = [createPc EXCEPT ![s] = "thrown"]
            /\ last' = [op |-> "create", id |-> s, thrown |-> "waitForSelector"]
            /\ UNCHANGED <<loginSessions, sessions, timers, now, destroyCalls>>
    /\ UNCHANGED <<cookieReads, destroys, removalArms, runtimeCookie, runtimeUpdatedAt>>
    /\ UNCHANGED <<req, config>>

\* page.waitForSelector settles: on success the session is registered and
\* both timers are armed; on rejection destory() is called and awaited.
CreateWait(s, ok, t) ==
    /\ createPc[s] = "wait"
    /\ IF ok
       THEN /\ t >= now
            /\ now' = t
            /\ sessions' = [i \in DOMAIN sessions \cup {s} |->
                               IF i = s THEN NewSession(s, t) ELSE sessions[i]]
            /\ timers' = timers \cup {<<"monitor", s>>, <<"expire", s>>}
            /\ loginSessions' = loginSessions \cup {s}
            /\ createPc' = [createPc EXCEPT ![s] = "done"]
            /\ last' = [op |-> "create", id |-> s, code |-> 200]
            /\ UNCHANGED destroyCalls
       ELSE /\ t = now
            /\ createPc' = [createPc EXCEPT ![s] = "destory"]
            /\ destroyCalls' = Bump(destroyCalls, s)
            /\ last' = NoResponse
            /\ UNCHANGED <<loginSessions, sessions, timers, now>>
    /\ UNCHANGED <<cookieReads, destroys, removalArms, runtimeCookie, runtimeUpdatedAt>>
    /\ UNCHANGED <<req, config>>

\* `await destory()` of the catch block settles; the error is rethrown.
CreateDestroyed(s) ==
    /\ createPc[s] = "destory"
    /\ createPc' = [createPc EXCEPT ![s] = "thrown"]
    /\ last' = [op |-> "create", id |-> s, thrown |-> "waitForSelector"]
    /\ UNCHANGED <<loginSessions, sessions, timers, cookieReads, destroys,
                   destroyCalls, removalArms, runtimeCookie, runtimeUpdatedAt, now>>
    /\ UNCHANGED <<req, config>>

\* --------------------------------------------- cleanupSessionResources
\* The synchronous part of cleanupSessionResources(session), up to its
\* `await session.destory()` (or to its end when there is no page):
\* sess is the session object as the caller left it.
CleanupEnter(s, sess) ==
    LET cleared == [sess EXCEPT !.monitor = FALSE, !.expireTimer = FALSE]
        kept == timers \ ( (IF sess.monitor THEN {<<"monitor", s>>} ELSE {})
                           \cup (IF sess.expireTimer THEN {<<"expire", s>>} ELSE {}) )
    IN  IF cleared.page /\ cleared.destory
        THEN /\ destroyCalls' = Bump(destroyCalls, s)
             /\ destroys' = Bump(destroys, s)
             /\ sessions' = [sessions EXCEPT ![s] = cleared]
             /\ timers' = kept
             /\ UNCHANGED removalArms
        ELSE /\ IF ~cleared.removalTimer
                THEN /\ sessions' = [sessions EXCEPT ![s] = [cleared EXCEPT !.removalTimer = TRUE]]
                     /\ timers' = kept \cup {<<"removal", s>>}
                     /\ removalArms' = Bump(removalArms, s)
                ELSE /\ sessions' = [sessions EXCEPT ![s] = cleared]
                     /\ timers' = kept
                     /\ UNCHANGED removalArms
             /\ UNCHANGED <<destroyCalls, destroys>>

\* Variant of CleanupResume that arms the removal timer without looking at
\* session.removalTimer.
CleanupResume_AlwaysArm(s) ==
    /\ destroys[s] > 0
    /\ destroys' = Drop(destroys, s)
    /\ sessions' = [sessions EXCEPT ![s] = [@ EXCEPT !.page = FALSE, !.destory = FALSE,
                                                      !.removalTimer = TRUE]]
    /\ timers' = timers \cup {<<"removal", s>>}
    /\ removalArms' = Bump(removalArms, s)
    /\ last' = NoResponse
    /\ UNCHANGED <<loginSessions, createPc, cookieReads, destroyCalls,
                   runtimeCookie, runtimeUpdatedAt, now>>
    /\ UNCHANGED <<req, config>>

\* `await session.destory()` settles (resolved, or rejected and logged):
\* lines 278-288.
CleanupResume(s) ==
    /\ destroys[s] > 0
    /\ destroys' = Drop(destroys, s)
    /\ LET sess == [sessions[s] EXCEPT !.page = FALSE, !.destory = FALSE]
       IN  IF ~sess.removalTimer
           THEN /\ sessions' = [sessions EXCEPT ![s] = [sess EXCEPT !.removalTimer = TRUE]]
                /\ timers' = timers \cup {<<"removal", s>>}
                /\ removalArms' = Bump(removalArms, s)
           ELSE /\ sessions' = [sessions EXCEPT ![s] = sess]
                /\ UNCHANGED <<timers, removalArms>>
    /\ last' = NoResponse
    /\ UNCHANGED <<loginSessions, createPc, cookieReads, destroyCalls,
                   runtimeCookie, runtimeUpdatedAt, now>>
    /\ UNCHANGED <<req, config>>

\* Variant of RemovalFire whose callback deletes nothing.
RemovalFire_NoDelete(s) ==
    /\ <<"removal", s>> \in timers
    /\ timers' = timers \ {<<"removal", s>>}
    /\ last' = NoResponse
    /\ UNCHANGED <<loginSessions, sessions, createPc, cookieReads, destroys, destroyCalls,
                   removalArms, runtimeCookie, runtimeUpdatedAt, now>>
    /\ UNCHANGED <<req, config>>

\* The removal timer fires: loginSessions.delete(session.id).
RemovalFire(s) ==
    /\ <<"removal", s>> \in timers
    /\ timers' = timers \ {<<"removal", s>>}
    /\ loginSessions' = loginSessions \ {s}
    /\ last' = NoResponse
    /\ UNCHANGED <<sessions, createPc, cookieReads, destroys, destroyCalls,
                   removalArms, runtimeCookie, runtimeUpdatedAt, now>>
    /\ UNCHANGED <<req, config>>

\* ------------------------------------------------------- monitorSession
\* The interval fires (every 3000 ms, whether or not an earlier tick is
\* still awaiting): monitorSession up to `await session.page.cookies()`.
MonitorTick(s) ==
    /\ <<"monitor", s>> \in timers
    /\ cookieReads[s] < MaxTicks
    /\ IF s \notin loginSessions \/ sessions[s].status # "pending" \/ ~sessions[s].page
       THEN UNCHANGED cookieReads
       ELSE cookieReads' = Bump(cookieReads, s)
    /\ last' = NoResponse
    /\ UNCHANGED <<loginSessions, sessions, timers, createPc, destroys, destroyCalls,
                   removalArms, runtimeCookie, runtimeUpdatedAt, now>>
    /\ UNCHANGED <<req, config>>

\* page.cookies() resolves with a jar: lines 168-174.
CookiesResolve(s, cookies) ==
    /\ cookieReads[s] > 0
    /\ cookieReads' = Drop(cookieReads, s)
    /\ IF HasSession(cookies)
       THEN /\ setRuntimeCookie(Def(JoinCookies(cookies)), now)
            /\ CleanupEnter(s, [sessions[s] EXCEPT !.cookie = Def(JoinCookies(cookies)),
                                                   !.status = "success"])
       ELSE UNCHANGED <<sessions, timers, destroys, destroyCalls, removalArms,
                       runtimeCookie, runtimeUpdatedAt>>
    /\ last' = NoResponse
    /\ UNCHANGED <<loginSessions, createPc, now>>
    /\ UNCHANGED <<req, config>>

\* Variant of CookiesReject whose catch block swallows the error and leaves
\* the session as it is.
CookiesReject_Swallow(s, e) ==
    /\ cookieReads[s] > 0
    /\ cookieReads' = Drop(cookieReads, s)
    /\ last' = NoResponse
    /\ UNCHANGED <<sessions, timers, destroys, destroyCalls, removalArms>>
    /\ UNCHANGED <<loginSessions, createPc, runtimeCookie, runtimeUpdatedAt, now>>
    /\ UNCHANGED <<req, config>>

\* page.cookies() rejects: lines 175-179.
CookiesReject(s, e) ==
    /\ cookieReads[s] > 0
    /\ cookieReads' = Drop(cookieReads, s)
    /\ CleanupEnter(s, [sessions[s] EXCEPT !.status = "failed",
                                           !.error = Def(ErrorText(e))])
    /\ last' = NoResponse
    /\ UNCHANGED <<loginSessions, createPc, runtimeCookie, runtimeUpdatedAt, now>>
    /\ UNCHANGED <<req, config>>

\* ---------------------------------------------------- markSessionExpired
\* Variant of ExpireFire whose callback also deletes the table entry.
ExpireFire_Delete(s) ==
    /\ <<"expire", s>> \in timers
    /\ IF s \notin loginSessions
       THEN /\ timers' = timers \ {<<"expire", s>>}
            /\ UNCHANGED <<sessions, destroys, destroyCalls, removalArms>>
       ELSE CleanupEnter(s, IF sessions[s].status = "pending"
                            THEN [sessions[s] EXCEPT !.status = "expired"]
                            ELSE sessions[s])
    /\ loginSessions' = loginSessions \ {s}
    /\ last' = NoResponse
    /\ UNCHANGED <<createPc, cookieReads, runtimeCookie, runtimeUpdatedAt, now>>
    /\ UNCHANGED <<req, config>>

\* Variant of ExpireFire whose callback returns without marking the
\* session or cleaning up.
ExpireFire_NoMark(s) ==
    /\ <<"expire", s>> \in timers
    /\ timers' = timers \ {<<"expire", s>>}
    /\ last' = NoResponse
    /\ UNCHANGED <<loginSessions, sessions, destroys, destroyCalls, removalArms, createPc,
                   cookieReads, runtimeCookie, runtimeUpdatedAt, now>>
    /\ UNCHANGED <<req, config>>

\* Variant of ExpireFire that cleans up without marking the session.
ExpireFire_CleanupOnly(s) ==
    /\ <<"expire", s>> \in timers
    /\ IF s \notin loginSessions
       THEN /\ timers' = timers \ {<<"expire", s>>}
            /\ UNCHANGED <<sessions, destroys, destroyCalls, removalArms>>
       ELSE CleanupEnter(s, sessions[s])
    /\ last' = NoResponse
    /\ UNCHANGED <<loginSessions, createPc, cookieReads, runtimeCookie,
                   runtimeUpdatedAt, now>>
    /\ UNCHANGED <<req, config>>

\* The expire timer fires (once, SESSION_TTL after registration).
ExpireFire(s) ==
    /\ <<"expire", s>> \in timers
    /\ IF s \notin loginSessions
       THEN /\ timers' = timers \ {<<"expire", s>>}
            /\ UNCHANGED <<sessions, destroys, destroyCalls, removalArms>>
       ELSE CleanupEnter(s, IF sessions[s].status = "pending"
                            THEN [sessions[s] EXCEPT !.status = "expired"]
                            ELSE sessions[s])
    /\ last' = NoResponse
    /\ UNCHANGED <<loginSessions, createPc, cookieReads, runtimeCookie,
                   runtimeUpdatedAt, now>>
    /\ UNCHANGED <<req, config>>

\* ------------------------------------------------------------ serveStatus
\* Variant of StatusResponse that reports the creation time as expiresAt.
StatusResponse_NoTtl(s) ==
    IF s \notin loginSessions
    THEN [code |-> 404, body |-> [status |-> "missing"]]
    ELSE [code |-> 200,
          body |-> [id |-> sessions[s].id,
                    status |-> sessions[s].status,
                    cookie |-> IF sessions[s].status = "success"
                               THEN sessions[s].cookie ELSE Undefined,
                    error |-> sessions[s].error,
                    expiresAt |-> sessions[s].createdAt]]

StatusResponse(s) ==
    IF s \notin loginSessions
    THEN [code |-> 404, body |-> [status |-> "missing"]]
    ELSE [code |-> 200,
          body |-> [id |-> sessions[s].id,
                    status |-> sessions[s].status,
                    cookie |-> IF sessions[s].status = "success"
                               THEN sessions[s].cookie ELSE Undefined,
                    error |-> sessions[s].error,
                    expiresAt |-> sessions[s].createdAt + SESSION_TTL]]

\* Variant of ServeStatus that drops a finished session from the table
\* when it is polled.
ServeStatus_Evict(s) ==
    /\ last' = [op |-> "status", id |-> s, response |-> StatusResponse(s)]
    /\ loginSessions' = IF s \in loginSessions /\ IsTerminal(sessions[s].status)
                        THEN loginSessions \ {s} ELSE loginSessions
    /\ UNCHANGED <<sessions, timers, createPc, cookieReads, destroys,
                   destroyCalls, removalArms, runtimeCookie, runtimeUpdatedAt, now>>
    /\ UNCHANGED <<req, config>>

\* handler with action 'status'.
ServeStatus(s) ==
    /\ last' = [op |-> "status", id |-> s, response |-> StatusResponse(s)]
    /\ UNCHANGED <<loginSessions, sessions, timers, createPc, cookieReads, destroys,
                   destroyCalls, removalArms, runtimeCookie, runtimeUpdatedAt, now>>
    /\ UNCHANGED <<req, config>>

\* ------------------------------------------------------------------ Next
\* The steps that drive a session: creation, timers, awaited operations.
Lifecycle ==
    \/ \E s \in Ids : CreateStart(s)
    \/ \E s \in Ids, ok \in BOOLEAN : CreateOpened(s, ok)
    \/ \E s \in Ids, ok \in BOOLEAN : CreateViewport(s, ok)
    \/ \E s \in Ids, ok \in BOOLEAN, t \in Times : CreateWait(s, ok, t)
    \/ \E s \in Ids : CreateDestroyed(s)
    \/ \E s \in Ids : MonitorTick(s)
    \/ \E s \in Ids, cookies \in Jars : CookiesResolve(s, cookies)
    \/ \E s \in Ids, e \in Thrown : CookiesReject(s, e)
    \/ \E s \in Ids : ExpireFire(s)
    \/ \E s \in Ids : CleanupResume(s)
    \/ \E s \in Ids : RemovalFire(s)

\* Every step of the program: the lifecycle, and status polls.
Next ==
    \/ Lifecycle
    \/ \E s \in Ids : ServeStatus(s)

Spec == Init /\ [][Next]_vars

\* Timers fire and awaited browser operations settle.  One session is
\* followed: sessions share no timer, page or table entry.
FairSpec ==
    /\ Init /\ [][Lifecycle /\ \A s \in Ids : s # 1 => createPc'[s] = "idle"]_vars
    /\ \A s \in Ids : WF_vars(CleanupResume(s))
    /\ \A s \in Ids : WF_vars(RemovalFire(s))

\* FairSpec, and the expire timer fires SESSION_TTL after registration.
TimerSpec == FairSpec /\ \A s \in Ids : WF_vars(ExpireFire(s))

\* ------------------------------------------------- captureQRCode
\* const selectors = [...] (line 243), tried in this order.
Selectors == << ".login-container img", ".login-qrcode img", ".reds-login-qrcode img",
                "img[src*=\"qrcode\"]", "canvas[aria-label*=qrcode]" >>

\* What the page answers during one capture: for each selector, page.$ finds
\* nothing ("null"), finds an element whose screenshot succeeds ("ok") or
\* fails ("fails"), or page.$ itself rejects ("throws"); the full-page
\* screenshot succeeds or rejects; error is the value an uncaught rejection
\* carries.
Outcomes ==
    [sel : [1..Len(Selectors) -> {"null", "ok", "fails", "throws"}],
     full : {"ok", "throws"},
     error : Thrown]

\* Variant of CaptureFrom without the try/catch around element.screenshot.
RECURSIVE CaptureFrom_NoCatch(_, _)
CaptureFrom_NoCatch(o, i) ==
    IF i > Len(Selectors)
    THEN IF o.full = "ok" THEN [kind |-> "png", of |-> "page"]
                          ELSE [kind |-> "throw", error |-> o.error]
    ELSE IF o.sel[i] = "throws" THEN [kind |-> "throw", error |-> o.error]
    ELSE IF o.sel[i] = "ok" THEN [kind |-> "png", of |-> Selectors[i]]
    ELSE IF o.sel[i] = "fails" THEN [kind |-> "throw", error |-> o.error]
    ELSE CaptureFrom_NoCatch(o, i + 1)

\* The loop of captureQRCode from selector i on, then the full-page
\* screenshot (lines 244-260).
RECURSIVE CaptureFrom(_, _)
CaptureFrom(o, i) ==
    IF i > Len(Selectors)
    THEN IF o.full = "ok" THEN [kind |-> "png", of |-> "page"]
                          ELSE [kind |-> "throw", error |-> o.error]
    ELSE IF o.sel[i] = "throws" THEN [kind |-> "throw", error |-> o.error]
    ELSE IF o.sel[i] = "ok" THEN [kind |-> "png", of |-> Selectors[i]]
    ELSE CaptureFrom(o, i + 1)

captureQRCode(o) == CaptureFrom(o, 1)

\* Everything one capture can end with.
CaptureResults == { captureQRCode(o) : o \in Outcomes }

\* --------------------------------------------------------- serveQRCode
\* !session || session.status !== 'pending' || !session.page (line 195)
SessionInactive_NoStatus(s) ==
    \/ s \notin loginSessions
    \/ ~sessions[s].page

SessionInactive(s) ==
    \/ s \notin loginSessions
    \/ sessions[s].status # "pending"
    \/ ~sessions[s].page

InactiveResponse == [code |-> 404, body |-> [error |-> "session_inactive"]]

\* Variant of CaptureResponse that answers a failed capture of a session
\* that is no longer active with session_inactive.
CaptureResponse_Recheck(s, r) ==
    IF r.kind = "png"
    THEN [code |-> 200, contentType |-> "image/png", cacheControl |-> "no-store",
          body |-> r.of]
    ELSE IF SessionInactive(s) THEN InactiveResponse
    ELSE [code |-> 500,
          body |-> [error |-> "qrcode_unavailable", message |-> ErrorText(r.error)]]

\* The response to a capture that ended with r (lines 204-220).
CaptureResponse(s, r) ==
    IF r.kind = "png"
    THEN [code |-> 200, contentType |-> "image/png", cacheControl |-> "no-store",
          body |-> r.of]
    ELSE [code |-> 500,
          body |-> [error |-> "qrcode_unavailable", message |-> ErrorText(r.error)]]

\* handler with action 'qrcode': serveQRCode up to `await captureQRCode`.
\* One QR request at a time is followed through its capture.
QrStart(s) ==
    /\ req = Idle
    /\ IF SessionInactive(s)
       THEN /\ last' = [op |-> "qrcode", id |-> s, response |-> InactiveResponse]
            /\ UNCHANGED req
       ELSE /\ last' = NoResponse
            /\ req' = [pc |-> "capture", id |-> s]
    /\ UNCHANGED <<loginSessions, sessions, timers, createPc, cookieReads, destroys,
                   destroyCalls, removalArms, runtimeCookie, runtimeUpdatedAt, now, config>>

\* captureQRCode settles.  It works on the page it was handed and reads or
\* writes nothing of the session, so its awaits are taken as one step.
QrSettle(r) ==
    /\ req.pc = "capture"
    /\ last' = [op |-> "qrcode", id |-> req.id, capture |-> r,
                response |-> CaptureResponse(req.id, r)]
    /\ req' = Idle
    /\ UNCHANGED <<loginSessions, sessions, timers, createPc, cookieReads, destroys,
                   destroyCalls, removalArms, runtimeCookie, runtimeUpdatedAt, now, config>>

\* The lifecycle of one session together with QR-code requests (for that
\* session's id or any other).  Sessions share nothing a capture touches, so
\* one session is followed.
QrNext ==
    \/ Lifecycle /\ \A s \in Ids : s # 1 => createPc'[s] = "idle"
    \/ \E s \in Ids : QrStart(s)
    \/ \E r \in CaptureResults : QrSettle(r)

QrSpec == Init /\ [][QrNext]_vars

\* captureQRCode alone, on every answer of the page.
CaptureInit ==
    /\ ModuleInit
    /\ req \in [pc : {"input"}, outcomes : Outcomes]
    /\ config = NoConfig

CaptureRun ==
    /\ req.pc = "input"
    /\ req' = [pc |-> "done", outcomes |-> req.outcomes,
               result |-> captureQRCode(req.outcomes)]
    /\ UNCHANGED <<loginSessions, sessions, timers, createPc, cookieReads, destroys,
                   destroyCalls, removalArms, runtimeCookie, runtimeUpdatedAt, now, last, config>>

CaptureSpec == CaptureInit /\ [][CaptureRun]_vars

\* ------------------------------------------------------- handler (login)
\* The :action path segment: absent, or a string.
Actions == { Undefined, Def("qrcode"), Def("status"), Def("Status"), Def("cancel") }

\* A dispatch that treats a request without an action as a status poll.
Route_DefaultStatus(action) ==
    IF action = Def("qrcode") THEN "serveQRCode"
    ELSE IF action = Def("status") \/ action = Undefined THEN "serveStatus"
    ELSE "unsupported"

\* The dispatch of handler for a request that has a session id.
Route(action) ==
    IF action = Def("qrcode") THEN "serveQRCode"
    ELSE IF action = Def("status") THEN "serveStatus"
    ELSE "unsupported"

UnsupportedResponse == [code |-> 404, body |-> [error |-> "unsupported_action"]]

\* handler(ctx) for a request with session id req.id and action req.action,
\* up to its response or to the await of captureQRCode.
Handler ==
    /\ req.pc = "request"
    /\ LET s == req.id
           answered == [pc |-> "answered", id |-> s, action |-> req.action]
       IN  CASE Route(req.action) = "serveQRCode" ->
                    IF SessionInactive(s)
                    THEN /\ last' = [op |-> "qrcode", id |-> s, response |-> InactiveResponse]
                         /\ req' = answered
                    ELSE /\ last' = NoResponse
                         /\ req' = [pc |-> "capture", id |-> s]
             [] Route(req.action) = "serveStatus" ->
                    /\ last' = [op |-> "status", id |-> s, response |-> StatusResponse(s)]
                    /\ req' = answered
             [] OTHER ->
                    /\ last' = [op |-> "handler", id |-> s, response |-> UnsupportedResponse]
                    /\ req' = answered
    /\ UNCHANGED <<loginSessions, sessions, timers, createPc, cookieReads, destroys,
                   destroyCalls, removalArms, runtimeCookie, runtimeUpdatedAt, now, config>>

\* One request with a session id arrives at some moment of a session's
\* lifecycle (a request without a session id is CreateStart).
HandlerInit ==
    /\ ModuleInit
    /\ req \in [pc : {"request"}, id : Ids, action : Actions]
    /\ config = NoConfig

HandlerNext ==
    \/ Lifecycle /\ \A s \in Ids : s # 1 => createPc'[s] = "idle"
    \/ Handler
    \/ \E r \in CaptureResults : QrSettle(r)

HandlerSpec == HandlerInit /\ [][HandlerNext]_vars

\* ------------------------------------------------- cookies sent upstream
\* JavaScript truthiness of an optional string: undefined and '' are falsy.
Truthy_Defined(o) == IsDef(o)

Truthy(o) == IsDef(o) /\ Val(o) # << >>

\* cookie.split(/;\s*/): cur is the segment being collected.
RECURSIVE SplitSegments(_, _)
SplitSegments(str, cur) ==
    IF str = << >> THEN <<cur>>
    ELSE IF Head(str) = ";"
         THEN <<cur>> \o SplitSegments(TrimStart(Tail(str)), << >>)
         ELSE SplitSegments(Tail(str), Append(cur, Head(str)))

\* segment.indexOf('='), counted from 1; 0 when there is none.
IndexOfEq(seg) ==
    IF \E i \in 1..Len(seg) : seg[i] = "="
    THEN CHOOSE i \in 1..Len(seg) : seg[i] = "=" /\ \A j \in 1..(i - 1) : seg[j] # "="
    ELSE 0

\* key.toLowerCase(), on the names that occur in the model.
ToLowerCase(ch) ==
    CASE ch = "Path" -> "path"
      [] ch = "Domain" -> "domain"
      [] ch = "Expires" -> "expires"
      [] ch = "Max-Age" -> "max-age"
      [] ch = "SameSite" -> "samesite"
      [] ch = "Secure" -> "secure"
      [] ch = "HttpOnly" -> "httponly"
      [] OTHER -> ch

Forbidden == {"path", "domain", "expires", "max-age", "samesite", "secure", "httponly"}

\* The mapping of one trimmed segment: `key=value`, or null (<< >>).
CleanSegment(seg) ==
    LET eq == IndexOfEq(seg)
        key == Trim(SubSeq(seg, 1, eq - 1))
        value == Trim(SubSeq(seg, eq + 1, Len(seg)))
    IN  IF eq = 0 THEN << >>
        ELSE IF key = << >> \/ (Len(key) = 1 /\ ToLowerCase(key[1]) \in Forbidden)
        THEN << >>
        ELSE key \o <<"=">> \o value

\* segments.join('; ') over the segments that are kept.
RECURSIVE JoinSegments(_)
JoinSegments(segs) ==
    IF segs = << >> THEN << >>
    ELSE LET seg == CleanSegment(Trim(Head(segs)))
             rest == JoinSegments(Tail(segs))
         IN  IF seg = << >> THEN rest
             ELSE IF rest = << >> THEN seg
             ELSE seg \o <<";", " ">> \o rest

sanitizeCookieString(cookie) ==
    IF ~Truthy(cookie) THEN << >> ELSE JoinSegments(SplitSegments(Val(cookie), << >>))

\* The Cookie entry of getHeaders(cookie).
getHeaders(cookie) ==
    [Cookie |-> IF Truthy(cookie) THEN Def(sanitizeCookieString(cookie)) ELSE Undefined]

\* The Cookie header put on a puppeteer page by onBeforeLoad.
PageHeaders(cookie) ==
    LET c == sanitizeCookieString(cookie)
    IN  [Cookie |-> IF c # << >> THEN Def(c) ELSE Undefined]

\* ------------------------------------------------ handler (user route)
ConfigCookie == <<"web_session", "=", "old", ";", " ", "Path", "=", "/", ";", " ", "HttpOnly">>

\* XIAOHONGSHU_COOKIE: unset, empty, or a cookie string.
Configs == { NoConfig, [cookie |-> Def(<< >>)], [cookie |-> Def(ConfigCookie)] }

Categories == {"notes", "collect"}

\* new InvalidParameterError(message); the messages are abbreviated.
InvalidParameter(message) ==
    [isError |-> TRUE, type |-> "InvalidParameterError", message |-> message]
IsInvalidParameter(e) == "type" \in DOMAIN e /\ e.type = "InvalidParameterError"

\* What an awaited callee of the handler can throw.
UserThrown == Thrown \cup { InvalidParameter("upstream") }

\* debugInfo as built at lines 68-72; the fields set later start undefined.
\* (profileUrl, cookieCheckTime and the note counts are left out.)
NewDebugInfo(category, cookie) ==
    [category |-> category, cookieProvided |-> Truthy(cookie),
     cookieValid |-> Undefined, cookieCheckError |-> Undefined,
     abortReason |-> Undefined, noteFetchStrategy |-> Undefined,
     xsecTokenDetected |-> Undefined, cookieNotesError |-> Undefined]

\* The handler suspended at an await, and the handler left: the finally
\* block has run ctx.set('json', debugInfo).
UserAwait(pc, d, calls) ==
    [pc |-> pc, debugInfo |-> d, ctxJson |-> Undefined, calls |-> calls]
UserExit(pc, d, calls, outcome) ==
    [pc |-> pc, debugInfo |-> d, ctxJson |-> Def(d), calls |-> calls, outcome |-> outcome]

\* The catch block of the notes branch (lines 123-131).
NotesCatch(d, calls, e) ==
    LET d1 == [d EXCEPT !.noteFetchStrategy = Def("cookie"),
                        !.cookieNotesError = Def(ErrorText(e))]
    IN  IF "missingXsecToken" \in DOMAIN e
        THEN UserExit("thrown", d1, calls, e)
        ELSE UserExit("thrown", [d1 EXCEPT !.abortReason = Def("cookie_fetch_failed")], calls,
                      IF IsInvalidParameter(e) THEN e
                      ELSE InvalidParameter("cookie fetch failed"))

UserUnchanged ==
    /\ last' = NoResponse
    /\ UNCHANGED <<loginSessions, sessions, timers, createPc, cookieReads, destroys,
                   destroyCalls, removalArms, runtimeCookie, runtimeUpdatedAt, now, config>>

\* handler up to the throw for a missing cookie, or to `await checkCookie()`
\* (checkCookie runs up to its ofetch).
UserStart ==
    /\ req.pc = "user"
    /\ LET cookie == config.cookie
           d == NewDebugInfo(req.category, cookie)
       IN  IF ~Truthy(cookie)
           THEN req' = UserExit("thrown",
                                [d EXCEPT !.cookieValid = Def(FALSE),
                                          !.abortReason = Def("missing_cookie")],
                                << >>, InvalidParameter("XIAOHONGSHU_COOKIE required"))
           ELSE req' = UserAwait("checkCookie", d,
                                 <<[fn |-> "checkCookie", headers |-> getHeaders(config.cookie)]>>)
    /\ UserUnchanged

CheckOutcomes == [kind : {"value"}, value : BOOLEAN] \cup [kind : {"throw"}, error : Thrown]

\* checkCookie settles: lines 84-97, then the call of getUserWithCookie or
\* of getUserFeeds up to its first request.
UserCookieChecked(out) ==
    /\ req.pc = "checkCookie"
    /\ LET d == req.debugInfo
       IN  IF out.kind = "throw"
           THEN req' = UserExit("thrown",
                                [d EXCEPT !.cookieValid = Def(FALSE),
                                          !.cookieCheckError = Def(ErrorText(out.error)),
                                          !.abortReason = Def("cookie_check_failed")],
                                req.calls, InvalidParameter("cannot verify XIAOHONGSHU_COOKIE"))
           ELSE IF ~out.value
           THEN req' = UserExit("thrown",
                                [d EXCEPT !.cookieValid = Def(FALSE),
                                          !.abortReason = Def("cookie_invalid")],
                                req.calls, InvalidParameter("XIAOHONGSHU_COOKIE expired"))
           ELSE IF d.category = "notes"
           THEN req' = UserAwait("getUserWithCookie",
                                 [d EXCEPT !.cookieValid = Def(TRUE),
                                           !.noteFetchStrategy = Def("cookie")],
                                 Append(req.calls, [fn |-> "getUserWithCookie",
                                                    headers |-> getHeaders(config.cookie)]))
           ELSE req' = UserAwait("getUserFeeds",
                                 [d EXCEPT !.cookieValid = Def(TRUE),
                                           !.noteFetchStrategy =
                                               Def(IF d.category = "notes" THEN "puppeteer"
                                                   ELSE "collect")],
                                 Append(req.calls, [fn |-> "getUserFeeds",
                                                    headers |-> PageHeaders(config.cookie)]))
    /\ UserUnchanged

NotesOutcomes == [kind : {"value"}, xsec : BOOLEAN] \cup [kind : {"throw"}, error : UserThrown]

\* getUserWithCookie settles: lines 102-114.
UserNotesFetched(out) ==
    /\ req.pc = "getUserWithCookie"
    /\ LET d == req.debugInfo
       IN  IF out.kind = "throw"
           THEN req' = NotesCatch(d, req.calls, out.error)
           ELSE IF ~out.xsec
           THEN req' = NotesCatch([d EXCEPT !.xsecTokenDetected = Def(FALSE),
                                            !.abortReason = Def("missing_xsec_token")],
                                  req.calls,
                                  [isError |-> TRUE, type |-> "InvalidParameterError",
                                   message |-> "xsec_token required",
                                   missingXsecToken |-> TRUE])
           ELSE req' = UserAwait("renderNotesFulltext",
                                 [d EXCEPT !.xsecTokenDetected = Def(TRUE)],
                                 Append(req.calls, [fn |-> "renderNotesFulltext",
                                                    headers |-> getHeaders(config.cookie)]))
    /\ UserUnchanged

SettleOutcomes == [kind : {"value"}] \cup [kind : {"throw"}, error : UserThrown]

\* renderNotesFulltext settles: lines 114-122.
UserNotesRendered(out) ==
    /\ req.pc = "renderNotesFulltext"
    /\ IF out.kind = "throw"
       THEN req' = NotesCatch(req.debugInfo, req.calls, out.error)
       ELSE req' = UserExit("returned", req.debugInfo, req.calls, [feed |-> "notes"])
    /\ UserUnchanged

\* getUserFeeds settles: line 135.
UserFeedsSettled(out) ==
    /\ req.pc = "getUserFeeds"
    /\ IF out.kind = "throw"
       THEN req' = UserExit("thrown", req.debugInfo, req.calls, out.error)
       ELSE req' = UserExit("returned", req.debugInfo, req.calls,
                            [feed |-> req.debugInfo.category])
    /\ UserUnchanged

\* One request to the user route arrives at some moment of a login
\* session's lifecycle.
UserInit ==
    /\ ModuleInit
    /\ req \in [pc : {"user"}, category : Categories]
    /\ config \in Configs

UserNext ==
    \/ Lifecycle /\ \A s \in Ids : s # 1 => createPc'[s] = "idle"
    \/ UserStart
    \/ \E out \in CheckOutcomes : UserCookieChecked(out)
    \/ \E out \in NotesOutcomes : UserNotesFetched(out)
    \/ \E out \in SettleOutcomes : UserNotesRendered(out)
    \/ \E out \in SettleOutcomes : UserFeedsSettled(out)

UserSpec == UserInit /\ [][UserNext]_vars

\* --------------------------------------------------------- getUserCollect
\* A collect object is [notes, hasMore]: its note list and its has_more
\* flag (undefined when it is not a boolean); null is << >>.  A note is
\* [id, title]: id is note.note_id || note.noteId || note.id (undefined when
\* the note has none), title stands for the rest of the note.
Note(id, title) == [id |-> id, title |-> title]
NoteLists == { <<Note(Def("n1"), "a")>>, <<Note(Def("n2"), "a")>>,
               <<Note(Def("n1"), "b"), Note(Def("n2"), "b")>> }
Null == << >>
\* What extractCollectFromState / extractCollectFromDom can yield: null or a
\* collect with at least one note.
Extracted == {Null} \cup { Def([notes |-> n, hasMore |-> Undefined]) : n \in NoteLists }
\* The same for the HTTP-fetched state, whose has_more flag is read.
HttpExtracted ==
    {Null} \cup { Def([notes |-> n, hasMore |-> h]) :
                      n \in NoteLists, h \in {Undefined, Def(TRUE), Def(FALSE)} }
\* The JSON payloads of the intercepted collect API responses.
Payloads ==
    { << >> } \cup { <<c>> : c \in Extracted \ {Null} }
              \cup { <<c, d>> : c, d \in Extracted \ {Null} }

\* notes.filter(Boolean)
RECURSIVE FilterBoolean(_)
FilterBoolean(notes) ==
    IF notes = << >> THEN << >>
    ELSE IF Head(notes) = Null THEN FilterBoolean(Tail(notes))
    ELSE <<Head(notes)>> \o FilterBoolean(Tail(notes))

\* The places a note list is looked for are taken as one field.
selectCollectNotes(collect) ==
    IF collect = Null THEN << >> ELSE FilterBoolean(Val(collect).notes)

\* A mergeCollectSources in which a later note replaces the one merged
\* earlier under the same id.
RECURSIVE MergeNotes_LastWins(_, _)
MergeNotes_LastWins(merged, notes) ==
    IF notes = << >> THEN merged
    ELSE LET note == Head(notes)
         IN  IF IsDef(note.id) /\ \E i \in 1..Len(merged) : merged[i].id = note.id
             THEN MergeNotes_LastWins([i \in 1..Len(merged) |->
                                          IF merged[i].id = note.id THEN note ELSE merged[i]],
                                      Tail(notes))
             ELSE MergeNotes_LastWins(Append(merged, note), Tail(notes))

\* The loop of mergeCollectSources over the notes of one source; the ids of
\* `merged` are the set `seen`.
\* A merge that puts a newly seen note ahead of the ones collected so far.
RECURSIVE MergeNotes_Prepend(_, _)
MergeNotes_Prepend(merged, notes) ==
    IF notes = << >> THEN merged
    ELSE LET note == Head(notes)
         IN  IF IsDef(note.id) /\ \E i \in 1..Len(merged) : merged[i].id = note.id
             THEN MergeNotes_Prepend(merged, Tail(notes))
             ELSE MergeNotes_Prepend(<<note>> \o merged, Tail(notes))

RECURSIVE MergeNotes(_, _)
MergeNotes(merged, notes) ==
    IF notes = << >> THEN merged
    ELSE LET note == Head(notes)
         IN  IF IsDef(note.id) /\ \E i \in 1..Len(merged) : merged[i].id = note.id
             THEN MergeNotes(merged, Tail(notes))
             ELSE MergeNotes(Append(merged, note), Tail(notes))

RECURSIVE MergeSources(_, _)
MergeSources(merged, sources) ==
    IF sources = << >> THEN merged
    ELSE MergeSources(MergeNotes(merged, selectCollectNotes(Head(sources))), Tail(sources))

\* mergeCollectSources(...sources): null when nothing was merged.
mergeCollectSources(sources) ==
    LET merged == MergeSources(<< >>, sources)
    IN  IF merged = << >> THEN Null ELSE Def([notes |-> merged, hasMore |-> Undefined])

\* hasMoreCollectFlag: null (<< >>) when there is no boolean flag.
hasMoreCollectFlag(collect) ==
    IF collect = Null THEN Null ELSE Val(collect).hasMore

\* a ?? b
Coalesce(a, b) == IF a # Null THEN a ELSE b

CaptchaError == [isError |-> TRUE, type |-> "CaptchaError", message |-> "captcha"]

\* The locals of one getUserCollect call; page: getPuppeteerPage has handed
\* over { page, destory }; teardowns: how often destory() was invoked.
CollectFrame(pc, http, result, ssr, api, dom, outcome) ==
    [pc |-> pc, collectFromHttp |-> http, collectResult |-> result,
     ssrCollect |-> ssr, apiCollect |-> api, domCollect |-> dom, outcome |-> outcome,
     page |-> FALSE, teardowns |-> 0]

\* At(pc, f): frame f moved to position pc.
At(pc, f) == [f EXCEPT !.pc = pc]

\* A try statement without its finally block: the frame leaves at once.
Finally_Skip(f) ==
    [f EXCEPT !.pc = IF f.outcome.kind = "return" THEN "returned" ELSE "thrown"]

\* The finally block, up to its `await destory()`; f.outcome is what the
\* try or catch block left with.
Finally(f) == [f EXCEPT !.pc = "destory", !.teardowns = @ + 1]

\* The catch block of getUserCollect, up to the `await destory()` of finally.
CollectCatch(f, e) ==
    Finally([f EXCEPT !.outcome = IF f.collectResult # Null
                                  THEN [kind |-> "return", value |-> f.collectResult]
                                  ELSE [kind |-> "throw", error |-> e]])

\* fetchCollectFromHtml settles (null without a configured cookie): the
\* early return, or the call of getPuppeteerPage.
CollectHttp(http) ==
    /\ req.pc = "fetchCollectFromHtml"
    /\ ~Truthy(config.cookie) => http = Null
    /\ IF http # Null /\ hasMoreCollectFlag(http) = Def(FALSE)
       THEN req' = CollectFrame("returned", http, Null, Null, Null, Null,
                                [kind |-> "return", value |-> http])
       ELSE req' = CollectFrame("getPuppeteerPage", http, Null, Null, Null, Null, Null)
    /\ UserUnchanged

\* getPuppeteerPage settles; it is awaited before the try block.
CollectOpened(ok, e) ==
    /\ req.pc = "getPuppeteerPage"
    /\ IF ok
       THEN req' = [req EXCEPT !.pc = "navigate", !.page = TRUE,
                                !.collectResult = req.collectFromHttp]
       ELSE req' = [req EXCEPT !.pc = "thrown", !.outcome = [kind |-> "throw", error |-> e]]
    /\ UserUnchanged

NavigateOutcomes ==
    [kind : {"value"}] \cup [kind : {"throw"},
                             error : Thrown \cup {CaptchaError, InvalidParameter("login required")}]

\* goto, waitForSelector, waitForResponse, the captcha test and the login
\* redirect test: lines 408-430.
CollectNavigated(out) ==
    /\ req.pc = "navigate"
    /\ req' = IF out.kind = "throw" THEN CollectCatch(req, out.error) ELSE At("ssr", req)
    /\ UserUnchanged

\* page.evaluate / readInitialStateFromHtml settle: lines 448-453.
CollectSsr(out) ==
    /\ req.pc = "ssr"
    /\ req' = IF out.kind = "throw" THEN CollectCatch(req, out.error)
              ELSE [req EXCEPT !.pc = "scroll",
                               !.ssrCollect = out.value,
                               !.collectResult =
                                   Coalesce(mergeCollectSources(<<req.collectResult, out.value>>),
                                            req.collectResult)]
    /\ UserUnchanged

\* triggerCollectByClick (when nothing was found yet), scrollCollectList and
\* Promise.allSettled settle: lines 454-460.
CollectScrolled(out) ==
    /\ req.pc = "scroll"
    /\ req' = IF out.kind = "throw" THEN CollectCatch(req, out.error)
              ELSE LET api == mergeCollectSources(out.value)
                   IN  [req EXCEPT !.pc = "dom",
                                   !.apiCollect = api,
                                   !.collectResult =
                                       Coalesce(mergeCollectSources(<<req.collectResult, api>>),
                                                req.collectResult)]
    /\ UserUnchanged

\* extractCollectFromDom settles: lines 461-468.
CollectDom(out) ==
    /\ req.pc = "dom"
    /\ req' = IF out.kind = "throw" THEN CollectCatch(req, out.error)
              ELSE LET result == Coalesce(mergeCollectSources(<<req.collectResult, out.value>>),
                                          req.collectResult)
                       f == [req EXCEPT !.domCollect = out.value, !.collectResult = result]
                   IN  IF result = Null
                       THEN CollectCatch(f, InvalidParameter("no collect content"))
                       ELSE Finally([f EXCEPT !.outcome = [kind |-> "return",
                                                           value |-> result]])
    /\ UserUnchanged

\* `await destory()` of the finally block settles.
CollectDestroyed ==
    /\ req.pc = "destory"
    /\ req' = At(IF req.outcome.kind = "return" THEN "returned" ELSE "thrown", req)
    /\ UserUnchanged

\* ---------------------------------------------------------------- getUser
\* getPuppeteerPage settles; it is awaited before the try block.
GetUserOpened(ok, e) ==
    /\ req.pc = "getUser"
    /\ req' = IF ok
              THEN [pc |-> "getUser.try", page |-> TRUE, teardowns |-> 0, outcome |-> Null]
              ELSE [pc |-> "getUser.thrown", page |-> FALSE, teardowns |-> 0,
                    outcome |-> [kind |-> "throw", error |-> e]]
    /\ UserUnchanged

GetUserOutcomes ==
    [kind : {"return"}, value : {"user"}]
        \cup [kind : {"throw"},
              error : Thrown \cup {CaptchaError, InvalidParameter("no user data")}]

\* The try block of getUser (lines 298-325) leaves, by return or by throw.
GetUserRead(out) ==
    /\ req.pc = "getUser.try"
    /\ req' = [Finally([req EXCEPT !.outcome = out]) EXCEPT !.pc = "getUser.destory"]
    /\ UserUnchanged

\* `await destory()` of the finally block settles.
GetUserDestroyed ==
    /\ req.pc = "getUser.destory"
    /\ req' = At(IF req.outcome.kind = "return" THEN "getUser.returned"
                 ELSE "getUser.thrown", req)
    /\ UserUnchanged

\* One call of getUserCollect or of getUser, as getUserFeeds makes them.
CollectInit ==
    /\ ModuleInit
    /\ req \in { [pc |-> "fetchCollectFromHtml"], [pc |-> "getUser"] }
    /\ config \in Configs

ExtractOutcomes == [kind : {"value"}, value : Extracted] \cup [kind : {"throw"}, error : Thrown]
ScrollOutcomes == [kind : {"value"}, value : Payloads] \cup [kind : {"throw"}, error : Thrown]

CollectNext ==
    \/ \E http \in HttpExtracted : CollectHttp(http)
    \/ \E ok \in BOOLEAN, e \in Thrown : CollectOpened(ok, e)
    \/ \E out \in NavigateOutcomes : CollectNavigated(out)
    \/ \E out \in ExtractOutcomes : CollectSsr(out)
    \/ \E out \in ScrollOutcomes : CollectScrolled(out)
    \/ \E out \in ExtractOutcomes : CollectDom(out)
    \/ CollectDestroyed
    \/ \E ok \in BOOLEAN, e \in Thrown : GetUserOpened(ok, e)
    \/ \E out \in GetUserOutcomes : GetUserRead(out)
    \/ GetUserDestroyed

CollectSpec == CollectInit /\ [][CollectNext]_vars

\* ----------------------------------------------------- mergeCollectSources
\* Inputs of mergeCollectSources: up to two sources, each null or a collect
\* whose list holds up to two entries (notes with or without an id, or
\* null), and three sources whose lists hold at most one entry.
AllNotes == {Null} \cup { Note(id, title) : id \in {Undefined, Def("n1"), Def("n2")},
                                           title \in {"a", "b"} }
OneLists == { << >> } \cup { <<a>> : a \in AllNotes }
ShortLists == OneLists \cup { <<a, b>> : a, b \in AllNotes }
SourcesOf(lists) == {Null} \cup { Def([notes |-> n, hasMore |-> Undefined]) : n \in lists }
MergeInputs ==
    { << >> } \cup { <<x>> : x \in SourcesOf(ShortLists) }
              \cup { <<x, y>> : x, y \in SourcesOf(ShortLists) }
              \cup { <<x, y, z>> : x, y, z \in SourcesOf(OneLists) }

MergeInit ==
    /\ ModuleInit
    /\ req \in [pc : {"sources"}, sources : MergeInputs]
    /\ config = NoConfig

MergeRun ==
    /\ req.pc = "sources"
    /\ req' = [pc |-> "merged", sources |-> req.sources,
               result |-> mergeCollectSources(req.sources)]
    /\ UNCHANGED <<loginSessions, sessions, timers, createPc, cookieReads, destroys,
                   destroyCalls, removalArms, runtimeCookie, runtimeUpdatedAt, now, last,
                   config>>

MergeSpec == MergeInit /\ [][MergeRun]_vars

\* -------------------------------------------------------- scrollCollectList
\* The largest number of notes the page shows.
MaxCount == 8

\* maxRounds: the default of the parameter, and what getUserCollect passes.
DefaultMaxRounds == 5
CollectMaxRounds == 8

Counts == 0..MaxCount

\* What `page.evaluate(count)` settles with.
CountOutcomes == [kind : {"value"}, value : Counts] \cup [kind : {"throw"}]

\* The locals of one scrollCollectList call. initial is lastCount as the
\* first read left it and rounds lists, per finished round, what the round
\* observed: neither is read by the function.
ScrollFrame(maxRounds) ==
    [pc |-> "count", maxRounds |-> maxRounds, lastCount |-> 0, i |-> 0,
     increased |-> FALSE, initial |-> 0, rounds |-> << >>, outcome |-> Null]

\* The head of the for loop: another round, or `return lastCount`.
ScrollLoop(f) ==
    IF f.i < f.maxRounds
    THEN At("scroll", f)
    ELSE [f EXCEPT !.pc = "returned",
                   !.outcome = [kind |-> "return", value |-> f.lastCount]]

\* The first read of the note count settles (lines 168-173).
ScrollCounted(out) ==
    /\ req.pc = "count"
    /\ LET lastCount == IF out.kind = "value" THEN out.value ELSE 0
       IN  req' = ScrollLoop([req EXCEPT !.lastCount = lastCount, !.initial = lastCount])
    /\ UserUnchanged

\* The scroll of the page settles (lines 176-182); its rejection is not caught.
ScrollScrolled(ok, e) ==
    /\ req.pc = "scroll"
    /\ req' = IF ok THEN At("wait", req)
              ELSE [req EXCEPT !.pc = "thrown",
                               !.outcome = [kind |-> "throw", error |-> e]]
    /\ UserUnchanged

\* waitForFunction settles: resolved is true, rejected (timeout) is false.
ScrollWaited(increased) ==
    /\ req.pc = "wait"
    /\ req' = [req EXCEPT !.pc = "recount", !.increased = increased]
    /\ UserUnchanged

\* A round that goes on whenever the count it read is larger.
ScrollRecounted_IgnoreWait(out) ==
    /\ req.pc = "recount"
    /\ LET currentCount == IF out.kind = "value" THEN out.value ELSE req.lastCount
           f == [req EXCEPT !.rounds = Append(@, [increased |-> req.increased,
                                                  count |-> currentCount])]
       IN  req' = IF currentCount <= req.lastCount
                  THEN [f EXCEPT !.pc = "returned",
                                 !.outcome = [kind |-> "return", value |-> req.lastCount]]
                  ELSE ScrollLoop([f EXCEPT !.lastCount = currentCount, !.i = @ + 1])
    /\ UserUnchanged

\* The second read of the round settles, and the round ends (lines 190-200).
ScrollRecounted(out) ==
    /\ req.pc = "recount"
    /\ LET currentCount == IF out.kind = "value" THEN out.value ELSE req.lastCount
           f == [req EXCEPT !.rounds = Append(@, [increased |-> req.increased,
                                                  count |-> currentCount])]
       IN  req' = IF ~req.increased \/ currentCount <= req.lastCount
                  THEN [f EXCEPT !.pc = "returned",
                                 !.outcome = [kind |-> "return", value |-> req.lastCount]]
                  ELSE ScrollLoop([f EXCEPT !.lastCount = currentCount, !.i = @ + 1])
    /\ UserUnchanged

ScrollInit ==
    /\ ModuleInit
    /\ req \in { ScrollFrame(m) : m \in {DefaultMaxRounds, CollectMaxRounds} }
    /\ config = NoConfig

ScrollNext ==
    \/ \E out \in CountOutcomes : ScrollCounted(out)
    \/ \E ok \in BOOLEAN, e \in Thrown : ScrollScrolled(ok, e)
    \/ \E increased \in BOOLEAN : ScrollWaited(increased)
    \/ \E out \in CountOutcomes : ScrollRecounted(out)

\* Every await of the function settles.
ScrollSpec == ScrollInit /\ [][ScrollNext]_vars /\ WF_vars(ScrollNext)

\* ================================================================ claims
Missing == [code |-> 404, body |-> [status |-> "missing"]]

\* C1: once a session's status is `expired`, no later step changes it to
\* `success` or `failed` (for as long as the session is in the table).
C1_ExpiredNeverChanges ==
    [][\A s \in loginSessions :
          (sessions[s].status = "expired" /\ s \in loginSessions')
              => sessions'[s].status \notin {"success", "failed"}]_vars

\* C2: every session in the table has its cookie set iff its status is
\* `success`.
C2_CookieIffSuccess ==
    \A s \in loginSessions : IsDef(sessions[s].cookie) <=> sessions[s].status = "success"

\* C3: every session in the table has its error set iff its status is
\* `failed`.
C3_ErrorIffFailed ==
    \A s \in loginSessions : IsDef(sessions[s].error) <=> sessions[s].status = "failed"

\* C4: for every registered session the page's teardown is invoked exactly
\* once: never twice, and (the teardown call being part of the step that
\* makes the session terminal) at least once when the session is terminal.
C4_TeardownExactlyOnce ==
    \A s \in DOMAIN sessions :
        /\ destroyCalls[s] <= 1
        /\ IsTerminal(sessions[s].status) => destroyCalls[s] >= 1

\* C5: at most one removal timer is ever armed for a session, however many
\* cleanup calls run or overlap; a session that has left the table was
\* deleted by that one timer, which has fired.
C5_RemovalArmedAtMostOnce ==
    \A s \in Ids :
        /\ removalArms[s] <= 1
        /\ (<<"removal", s>> \in timers) => removalArms[s] = 1
        /\ (s \in DOMAIN sessions /\ s \notin loginSessions)
               => (removalArms[s] = 1 /\ <<"removal", s>> \notin timers)

\* C5 witness: two cleanup calls overlapped (the teardown was invoked twice),
\* both have finished, and the session was deleted by its single timer.
C5_Witness ==
    \E s \in DOMAIN sessions :
        /\ destroyCalls[s] >= 2
        /\ destroys[s] = 0
        /\ removalArms[s] = 1
        /\ s \notin loginSessions

\* C6: every session in the table that has made a terminal transition is
\* eventually deleted, and a status poll for its id then answers 404
\* {status: "missing"} (timers fire and the teardown settles).
C6_TerminalEventuallyMissing ==
    \A s \in Ids :
        (s \in loginSessions /\ IsTerminal(sessions[s].status))
            ~> (StatusResponse(s) = Missing)

\* C6 witness: a session that became terminal has been removed and polls
\* as missing.
C6_Witness ==
    \E s \in DOMAIN sessions :
        /\ IsTerminal(sessions[s].status)
        /\ s \notin loginSessions
        /\ StatusResponse(s) = Missing

\* C7: a session is `success` only with the cookie joined from a jar holding
\* web_session, and from then until it is removed every status poll returns
\* `success` with that same cookie.
C7_SuccessPollsStable ==
    [][\A s \in loginSessions :
          sessions[s].status = "success"
              => /\ \E jar \in Jars : HasSession(jar) /\ sessions[s].cookie = Def(JoinCookies(jar))
                 /\ s \in loginSessions'
                        => /\ StatusResponse(s)'.body.status = "success"
                           /\ StatusResponse(s)'.body.cookie = sessions[s].cookie]_vars

\* C8: after the expire timer turned a pending session `expired`, every
\* status poll until the session is removed returns `expired` and no cookie.
C8_ExpiredPollsStable ==
    [][\A s \in loginSessions :
          (StatusResponse(s).body.status = "expired" /\ s \in loginSessions')
              => /\ StatusResponse(s)'.body.status = "expired"
                 /\ StatusResponse(s)'.body.cookie = Undefined]_vars

\* C9: a status poll changes nothing but the response: no session field, no
\* timer, no table entry, no pending operation, not the runtime cookie.
C9_StatusPollIsPureRead ==
    [][last'.op = "status"
          => UNCHANGED <<loginSessions, sessions, timers, createPc, cookieReads, destroys,
                         destroyCalls, removalArms, runtimeCookie, runtimeUpdatedAt, now,
                         req, config>>]_vars

\* C9 witness: a poll answered for a session that is cleaned up (page
\* released, removal timer armed) and not yet removed.
C9_Witness ==
    /\ last.op = "status"
    /\ last.id \in loginSessions
    /\ IsTerminal(sessions[last.id].status)
    /\ ~sessions[last.id].page
    /\ <<"removal", last.id>> \in timers

\* C10: a status poll answers 404 {status: "missing"} exactly when the id is
\* not in the table; otherwise 200 with the session's id and status, the
\* cookie only when the status is `success`, the error as stored, and
\* expiresAt = createdAt + SESSION_TTL.
C10_StatusProjection ==
    [][last'.op = "status"
          => LET s == last'.id
                 r == last'.response
             IN  /\ (r = Missing) <=> (s \notin loginSessions)
                 /\ (r.code = 404) <=> (s \notin loginSessions)
                 /\ s \in loginSessions
                        => /\ r.code = 200
                           /\ r.body.id = s
                           /\ r.body.status = sessions[s].status
                           /\ IsDef(r.body.cookie) => sessions[s].status = "success"
                           /\ sessions[s].status = "success" => r.body.cookie = sessions[s].cookie
                           /\ r.body.error = sessions[s].error
                           /\ r.body.expiresAt = sessions[s].createdAt + SESSION_TTL]_vars

\* C10 witness: polls answered with a success projection carrying the cookie.
C10_Witness ==
    /\ last.op = "status"
    /\ last.response.code = 200
    /\ last.response.body.status = "success"
    /\ IsDef(last.response.body.cookie)
    /\ last.response.body.expiresAt = sessions[last.id].createdAt + SESSION_TTL

\* C11: a QR-code request for an id whose session is missing, not pending or
\* without a page is answered at once with 404 {error: "session_inactive"},
\* starts no capture and changes nothing; a capture is started only for a
\* pending session that is in the table and has its page.
C11_InactiveGets404 ==
    [][/\ (last'.op = "qrcode" /\ req = Idle)
            => LET s == last'.id
               IN  /\ s \notin loginSessions \/ sessions[s].status # "pending"
                                             \/ ~sessions[s].page
                   /\ last'.response = [code |-> 404, body |-> [error |-> "session_inactive"]]
                   /\ req' = Idle
                   /\ UNCHANGED <<loginSessions, sessions, timers, createPc, cookieReads,
                                  destroys, destroyCalls, removalArms, runtimeCookie,
                                  runtimeUpdatedAt, now>>
       /\ (req = Idle /\ req' # Idle)
            => /\ req'.id \in loginSessions
               /\ sessions[req'.id].status = "pending"
               /\ sessions[req'.id].page]_vars

\* C11 witness: a request for a session that is in the table but already
\* terminal was answered with session_inactive.
C11_Witness ==
    /\ last.op = "qrcode"
    /\ last.response.code = 404
    /\ last.id \in loginSessions
    /\ IsTerminal(sessions[last.id].status)

\* The first selector at which the loop of captureQRCode stops (a screenshot
\* succeeded or page.$ rejected); 0 when it runs through all selectors.
C12_Stops(o) == { i \in 1..Len(Selectors) : o.sel[i] \in {"ok", "throws"} }
C12_FirstStop(o) ==
    IF C12_Stops(o) = {} THEN 0
    ELSE CHOOSE i \in C12_Stops(o) : \A j \in C12_Stops(o) : i <= j

\* C12: captureQRCode tries the selectors in order and a failed element
\* screenshot does not end the capture: the answer is 200 PNG with the
\* screenshot of the first selector whose screenshot succeeds, as long as no
\* element lookup rejected before it, and otherwise with the full-page
\* screenshot when all selectors were tried and it succeeds.
C12_FallbackYieldsPng ==
    req.pc = "done"
        => LET o == req.outcomes
               k == C12_FirstStop(o)
               resp == CaptureResponse(1, req.result)
           IN  /\ (k # 0 /\ o.sel[k] = "ok")
                     => (resp.code = 200 /\ resp.contentType = "image/png"
                         /\ resp.body = Selectors[k])
               /\ (k = 0 /\ o.full = "ok")
                     => (resp.code = 200 /\ resp.contentType = "image/png"
                         /\ resp.body = "page")
               /\ resp.code = 200 => (k # 0 /\ o.sel[k] = "ok") \/ (k = 0 /\ o.full = "ok")

\* C12 witness: the primary selector's screenshot failed, a later selector's
\* succeeded, and the capture returned that PNG.
C12_Witness ==
    /\ req.pc = "done"
    /\ req.outcomes.sel[1] = "fails"
    /\ \E j \in 2..Len(Selectors) : /\ req.outcomes.sel[j] = "ok"
                                    /\ req.result = [kind |-> "png", of |-> Selectors[j]]

\* C13: a capture that was started (the session was pending with a page) and
\* fails is answered with 500 {error: "qrcode_unavailable", message}, never
\* with session_inactive, whatever became of the session meanwhile; and
\* answering leaves every session's fields unchanged.
C13_CaptureFailureIs500 ==
    [][(req # Idle /\ req' = Idle)
          => /\ last'.op = "qrcode"
             /\ last'.id = req.id
             /\ last'.capture.kind = "throw"
                  => /\ last'.response.code = 500
                     /\ last'.response.body.error = "qrcode_unavailable"
                     /\ \E e \in Thrown :
                           /\ last'.capture.error = e
                           /\ last'.response.body.message
                                  = (IF e.isError THEN e.message ELSE e.value)
             /\ last'.response.code # 404
             /\ sessions' = sessions
             /\ loginSessions' = loginSessions]_vars

\* C13 witness: the session ended while its capture was in flight, and the
\* failed capture was answered with 500.
C13_Witness ==
    /\ last.op = "qrcode"
    /\ last.response.code = 500
    /\ last.id \in loginSessions
    /\ IsTerminal(sessions[last.id].status)
    /\ ~sessions[last.id].page

C17_UnsupportedAction ==
    [][(/\ req.pc = "request"
        /\ req.action \notin {Def("qrcode"), Def("status")}
        /\ req' # req)
          => /\ last' = [op |-> "handler", id |-> req.id,
                         response |-> [code |-> 404,
                                       body |-> [error |-> "unsupported_action"]]]
             /\ req'.pc = "answered"
             /\ UNCHANGED <<loginSessions, sessions, timers, createPc, cookieReads,
                            destroys, destroyCalls, removalArms, runtimeCookie,
                            runtimeUpdatedAt, now>>]_vars

\* C17 witness: a request without an action, for the id of a session that is
\* in the table, was answered with unsupported_action.
C17_Witness ==
    /\ req.pc = "answered"
    /\ req.action = Undefined
    /\ last.op = "handler"
    /\ last.response.code = 404
    /\ req.id \in loginSessions

\* C19: the shared active cookie is written only on behalf of a session that
\* is `pending` at that moment: a step that changes the runtime cookie is the
\* step that takes a pending session to `success`.
C19_PublishOnlyWhilePending ==
    [][(<<runtimeCookie, runtimeUpdatedAt>>' # <<runtimeCookie, runtimeUpdatedAt>>)
          => \E s \in loginSessions :
                /\ sessions[s].status = "pending"
                /\ sessions'[s].status = "success"
                /\ runtimeCookie' = sessions'[s].cookie]_vars

\* C20: the terminal transition happens at most once: a session that is
\* `success` never becomes `failed` and a session that is `failed` never
\* becomes `success`, for as long as it is in the table.
C20_TerminalOnce ==
    [][\A s \in loginSessions :
          s \in loginSessions'
              => /\ sessions[s].status = "success" => sessions'[s].status # "failed"
                 /\ sessions[s].status = "failed" => sessions'[s].status # "success"]_vars

\* C15: the cookie a successful login published is the credential of the
\* scraping routes when no cookie is configured: a request to the user route
\* that arrives while the runtime cookie is set and XIAOHONGSHU_COOKIE is
\* unset or empty goes on to the cookie check, and that request carries the
\* published cookie.
C15_RuntimeCookieIsCredential ==
    [][(/\ req.pc = "user"
        /\ req' # req
        /\ IsDef(runtimeCookie)
        /\ config.cookie \in {Undefined, Def(<< >>)})
          => /\ req'.pc = "checkCookie"
             /\ req'.calls[1].headers.Cookie = runtimeCookie]_vars

C16_RaisesOnlyWhenNothing ==
    req.pc = "thrown"
        => /\ selectCollectNotes(req.collectFromHttp) = << >>
           /\ selectCollectNotes(req.ssrCollect) = << >>
           /\ selectCollectNotes(req.apiCollect) = << >>
           /\ selectCollectNotes(req.domCollect) = << >>

\* C21: a session leaves the table only when its removal timer fires, and a
\* removal timer is armed only by cleanup (both other timers cancelled, the
\* status terminal); so no session leaves the table while it is `pending`.
C21_RemovedOnlyByRemovalTimer ==
    [][/\ \A s \in loginSessions \ loginSessions' :
             /\ <<"removal", s>> \in timers
             /\ <<"removal", s>> \notin timers'
             /\ sessions[s].status # "pending"
       /\ \A s \in Ids :
             (<<"removal", s>> \in timers' /\ <<"removal", s>> \notin timers)
                 => /\ s \in DOMAIN sessions'
                    /\ IsTerminal(sessions'[s].status)
                    /\ ~sessions'[s].monitor
                    /\ ~sessions'[s].expireTimer
                    /\ <<"monitor", s>> \notin timers'
                    /\ <<"expire", s>> \notin timers'
                    /\ removalArms'[s] = removalArms[s] + 1]_vars

\* C21 witness: an expired session was removed by its removal timer, which
\* had been armed once.
C21_Witness ==
    \E s \in DOMAIN sessions :
        /\ s \notin loginSessions
        /\ sessions[s].status = "expired"
        /\ removalArms[s] = 1
        /\ <<"removal", s>> \notin timers

\* C22: every session in the table that is `pending` eventually has another
\* status; when no monitor tick gets there first, the expire timer makes it
\* `expired` (timers fire, awaited operations settle).
C22_PendingEventuallyEnds ==
    \A s \in Ids :
        (s \in loginSessions /\ sessions[s].status = "pending")
            ~> (s \in DOMAIN sessions /\ sessions[s].status # "pending")

\* C22 witness: no cookie read ever ended the session; the expire timer
\* fired and the session is `expired`.
C22_Witness ==
    \E s \in loginSessions :
        /\ sessions[s].status = "expired"
        /\ <<"expire", s>> \notin timers
        /\ ~sessions[s].expireTimer
        /\ cookieReads[s] = 0

\* C23: when the cookie read of a monitor tick rejects, the session becomes
\* `failed` with `error` set to the thrown message and cleanup runs (both
\* timers cancelled, the teardown under way or the removal timer armed);
\* the step delivers no response and no error to any caller, and while the
\* session is in the table a status poll reports `failed` with that message.
C23_RejectedReadFails ==
    [][\A s \in Ids, e \in Thrown :
          CookiesReject(s, e)
              => LET message == IF e.isError THEN e.message ELSE e.value
                 IN  /\ sessions'[s].status = "failed"
                     /\ sessions'[s].error = Def(message)
                     /\ ~sessions'[s].monitor /\ ~sessions'[s].expireTimer
                     /\ <<"monitor", s>> \notin timers'
                     /\ <<"expire", s>> \notin timers'
                     /\ destroys'[s] > 0 \/ sessions'[s].removalTimer
                     /\ last' = NoResponse
                     /\ s \in loginSessions'
                          => /\ StatusResponse(s)'.code = 200
                             /\ StatusResponse(s)'.body.status = "failed"
                             /\ StatusResponse(s)'.body.error = Def(message)]_vars

\* C23 witness: the read of a pending session rejected with an Error; the
\* session is `failed` with its message and its page is being torn down.
C23_Witness ==
    \E s \in loginSessions :
        /\ sessions[s].status = "failed"
        /\ sessions[s].error = Def("Target closed")
        /\ sessions[s].cookie = Undefined
        /\ destroys[s] = 1
        /\ destroyCalls[s] = 1
        /\ <<"monitor", s>> \notin timers

\* A step in which a call of cleanupSessionResources on session s returns:
\* its `await session.destory()` settles, or it was entered for a session
\* without a page and ran to its end at once.
C24_CleanupCompletes(s) ==
    \/ CleanupResume(s)
    \/ /\ s \in DOMAIN sessions
       /\ ~(sessions[s].page /\ sessions[s].destory)
       /\ \/ s \in loginSessions /\ ExpireFire(s)
          \/ \E e \in Thrown : CookiesReject(s, e)
          \/ \E cookies \in Jars : HasSession(cookies) /\ CookiesResolve(s, cookies)

\* C24: when a call of cleanupSessionResources returns, whether the teardown
\* resolved or threw, the session's monitor and expire timers are cancelled,
\* its page and teardown references are cleared, its status is terminal and
\* a removal timer is armed for it; no error reaches the caller.
C24_CleanupPostcondition ==
    [][\A s \in Ids :
          C24_CleanupCompletes(s)
              => /\ ~sessions'[s].monitor /\ ~sessions'[s].expireTimer
                 /\ <<"monitor", s>> \notin timers'
                 /\ <<"expire", s>> \notin timers'
                 /\ ~sessions'[s].page /\ ~sessions'[s].destory
                 /\ IsTerminal(sessions'[s].status)
                 /\ sessions'[s].removalTimer
                 /\ <<"removal", s>> \in timers'
                 /\ last' = NoResponse]_vars

\* Every note the sources contribute, in source order and list order.
RECURSIVE C25_Contributed(_)
C25_Contributed(sources) ==
    IF sources = << >> THEN << >>
    ELSE (IF Head(sources) = Null THEN << >>
          ELSE SelectSeq(Val(Head(sources)).notes, LAMBDA n : n # Null))
         \o C25_Contributed(Tail(sources))

\* The positions of `all` that hold the first note of their id (or a note
\* without an id).
C25_First(all) ==
    { i \in 1..Len(all) :
          IsDef(all[i].id) => \A j \in 1..(i - 1) : all[j].id # all[i].id }

\* C25: mergeCollectSources keeps, for each note id, the note of the
\* earliest source and position that has it, in order of first appearance:
\* the result has no two notes with the same id, it is the contributed
\* notes restricted to the first occurrence of each id, and it is null
\* exactly when no source contributes a note.
C25_FirstSeenWins ==
    req.pc = "merged"
        => LET all == C25_Contributed(req.sources)
               first == C25_First(all)
           IN  /\ req.result = Null <=> all = << >>
               /\ req.result # Null
                    => LET merged == Val(req.result).notes
                       IN  /\ \A i, j \in 1..Len(merged) :
                                 (i # j /\ IsDef(merged[i].id)) => merged[i].id # merged[j].id
                           /\ Len(merged) = Cardinality(first)
                           /\ \A i \in first :
                                 merged[Cardinality({k \in first : k <= i})] = all[i]

\* C25 witness: two sources hold different notes under the same id; the
\* merge kept the first source's note and dropped the second's.
C25_Witness ==
    /\ req.pc = "merged"
    /\ Len(req.sources) = 2
    /\ req.sources[1] = Def([notes |-> <<Note(Def("n1"), "a")>>, hasMore |-> Undefined])
    /\ req.sources[2] = Def([notes |-> <<Note(Def("n2"), "b"), Note(Def("n1"), "b")>>,
                             hasMore |-> Undefined])
    /\ req.result = Def([notes |-> <<Note(Def("n1"), "a"), Note(Def("n2"), "b")>>,
                         hasMore |-> Undefined])

\* C26: every session in the table whose status is `pending` holds its page
\* and its teardown function, and its monitor timer and its expire timer are
\* armed.
C26_PendingHoldsPageAndTimers ==
    \A s \in loginSessions :
        sessions[s].status = "pending"
            => /\ sessions[s].page /\ sessions[s].destory
               /\ sessions[s].monitor /\ sessions[s].expireTimer
               /\ <<"monitor", s>> \in timers
               /\ <<"expire", s>> \in timers
               /\ ~sessions[s].removalTimer
               /\ destroyCalls[s] = 0

\* C26 witness: a pending session with a cookie read in flight.
C26_Witness ==
    \E s \in loginSessions :
        /\ sessions[s].status = "pending"
        /\ cookieReads[s] > 0
        /\ sessions[s].page
        /\ <<"expire", s>> \in timers

\* C27: when createLoginSession returns, the page it opened is owned by a
\* session registered in the table; when it throws after the page was
\* opened (viewport setup or selector wait failed), the page's teardown has
\* been invoked.
C27_OpenedPageOwnedOrReleased ==
    [][last'.op = "create"
          => LET s == last'.id
             IN  IF "thrown" \in DOMAIN last'
                 THEN last'.thrown # "getPuppeteerPage" => destroyCalls'[s] >= 1
                 ELSE /\ s \in loginSessions'
                      /\ sessions'[s].page /\ sessions'[s].destory]_vars

\* C28: when getUserCollect or getUser has left, by return or by throw, the
\* teardown of its browser page has been invoked exactly once if the page
\* was opened and not at all otherwise; so it is not invoked when
\* getUserCollect returns the HTTP result early, and never more than once.
C28_TeardownOncePerOpenedPage ==
    /\ req.pc \in {"returned", "thrown", "getUser.returned", "getUser.thrown"}
          => req.teardowns = (IF req.page THEN 1 ELSE 0)
    /\ req.pc = "returned" /\ ~req.page
          => /\ req.teardowns = 0
             /\ req.outcome = [kind |-> "return", value |-> req.collectFromHttp]
    /\ req.pc = "getUser.returned" => req.page
    /\ req.pc \in {"navigate", "ssr", "scroll", "dom", "getUser.try"}
          => req.page /\ req.teardowns = 0

\* C28 witness: getUserCollect opened its page, found nothing in the page
\* and returned the HTTP result it had, after one teardown.
C28_Witness ==
    /\ req.pc = "returned"
    /\ req.page
    /\ req.teardowns = 1
    /\ req.collectFromHttp # Null
    /\ req.ssrCollect = Null /\ req.apiCollect = Null /\ req.domCollect = Null
    /\ req.outcome.value = mergeCollectSources(<<req.collectFromHttp>>)

\* The ids of the notes a collect result holds.
C29_Ids(collect) ==
    LET notes == selectCollectNotes(collect)
    IN  { notes[i].id : i \in 1..Len(notes) }

\* C29: every step of getUserCollect keeps what collectResult has
\* accumulated: the note ids it held are still held afterwards, and the
\* notes it held stay, in their order, ahead of the notes the step added.
C29_AccumulatedResultOnlyGrows ==
    [][ "collectResult" \in DOMAIN req /\ "collectResult" \in DOMAIN req'
            => LET before == MergeNotes(<< >>, selectCollectNotes(req.collectResult))
                   after == selectCollectNotes(req'.collectResult)
               IN  /\ C29_Ids(req.collectResult) \subseteq C29_Ids(req'.collectResult)
                   /\ Len(before) <= Len(after)
                   /\ SubSeq(after, 1, Len(before)) = before ]_vars

\* C29 witness: the DOM scrape has added a note behind the notes of the HTTP
\* result, after the SSR state and the API payloads added none.
C29_Witness ==
    /\ req.pc = "destory"
    /\ req.collectFromHttp # Null
    /\ req.ssrCollect = Null /\ req.apiCollect = Null /\ req.domCollect # Null
    /\ LET http == selectCollectNotes(req.collectFromHttp)
           result == selectCollectNotes(req.collectResult)
       IN  /\ http # << >>
           /\ Len(result) > Len(http)
           /\ SubSeq(result, 1, Len(http)) = http

\* The count round k of the call was compared with.
C30_Previous(k) == IF k = 1 THEN req.initial ELSE req.rounds[k - 1].count

\* Round k saw the note count strictly increase.
C30_Increased(k) == req.rounds[k].increased /\ req.rounds[k].count > C30_Previous(k)

====
